---- MODULE Spec2Model ----
(***************************************************************************)
(* A model of the AutoMate backend: the HTTP gateway (the current server   *)
(* file src/unnamed/part_000 and the older src/index.js) in front of the   *)
(* external store, and the expiration notifier job src/sendNotifications.js*)
(* Every await of a handler is one step, so that requests interleave the   *)
(* way the event loop lets them.                                           *)
(***************************************************************************)
EXTENDS Integers, Sequences, FiniteSets, TLC

VARIABLES
  server,          \* which gateway file is deployed: "part_000" or "index"
  skipAuth,        \* process.env.SKIP_AUTH === 'true'
  users,           \* table users
  vehicles,        \* table vehicles
  documents,       \* table documents
  storage,         \* bucket vehicle-docs: the set of stored paths
  devices,         \* table devices
  reminders,       \* table reminders
  nextReminderId,  \* the next primary key of table reminders
  reqs,            \* the requests in flight, one per connection slot
  today,           \* the notifier host's local calendar day
  tz,              \* the notifier host's UTC offset in hours
  job              \* the notifier run

vars == <<server, skipAuth, users, vehicles, documents, storage, devices,
          reminders, nextReminderId, reqs, today, tz, job>>

store == <<users, vehicles, documents, storage, devices, reminders, nextReminderId>>

config == <<server, skipAuth, today, tz>>

-----------------------------------------------------------------------------
(* Values *)

NULL == "null"            \* SQL NULL, JavaScript null (0 in a column of ids)
Absent == "undefined"     \* JavaScript undefined: JSON.stringify drops the key

Uids == {"uidA", "uidB"}  \* external identities (Firebase uids)

DEV_UID == "uidA"         \* process.env.DEV_UID || 'dev-uid'

DEV_EMAIL == "dev@example.com"

Tokens == {"tokP", "tokQ"}   \* push tokens

Slots == {"c1", "c2"}        \* concurrent connections

MaxVehicles == 2

MaxDocuments == 3

MaxReminders == 2

Servers == {"part_000", "index"}

Headers == {"absent", "malformed", "rejected", "valid"}

NoBody == [none |-> TRUE]

NoClaims == [email |-> Absent, name |-> Absent]

Offsets == {-5, 0, 2}        \* UTC offsets of the notifier's host, in hours

HoursPerDay == 24

WindowDays == 30

Targets == {30, 15, 7}

NotStarted ==
  [pc |-> "idle", docs |-> <<>>, i |-> 0, diffDays |-> 0, firebaseUid |-> NULL,
   tokens |-> {}, sent |-> <<>>, skipped |-> {}]

\* Routes each server file registers (GET /health apart).
RoutesOf(srv) ==
  IF srv = "part_000"
  THEN {"registerUser", "createVehicle", "getVehicles", "getDocuments",
        "uploadDocument", "registerDevice", "getReminders", "createReminder",
        "updateReminder", "deleteReminder"}
  ELSE {"registerUser", "createVehicle", "getDocuments", "uploadDocument",
        "registerDevice"}

\* Handlers of part_000 that first translate req.user.uid to users.id.
ResolvingRoutes ==
  {"createVehicle", "getVehicles", "registerDevice", "getReminders",
   "createReminder", "updateReminder", "deleteReminder"}

\* JavaScript a || b on values that are undefined or truthy.
Or(a, b) == IF a # Absent THEN a ELSE b

Idle ==
  [pc |-> "idle", route |-> NULL, hdr |-> NULL, uid |-> NULL, claims |-> NoClaims,
   param |-> 0, body |-> NoBody, userId |-> 0, status |-> 0, data |-> {},
   error |-> NULL, ops |-> 0]

Busy(s) == reqs[s].pc \notin {"idle", "done"}

InFlight(route) == Cardinality({s \in Slots : Busy(s) /\ reqs[s].route = route})

\* The model admits a row-creating request only while its table has room.
Capacity(r) ==
  CASE r.route = "createVehicle" ->
         Cardinality(vehicles) + InFlight("createVehicle") < MaxVehicles
    [] r.route = "uploadDocument" ->
         Cardinality(storage) + InFlight("uploadDocument") < MaxDocuments
    [] r.route = "createReminder" ->
         nextReminderId + InFlight("createReminder") <= MaxReminders
    [] OTHER -> TRUE

\* The connection s takes the request record q. An answered request stays
\* on its connection, for inspection, until the next request arrives.
Accept(s, q) ==
  reqs' = [c \in Slots |-> IF c = s THEN q
                           ELSE IF reqs[c].pc = "done" THEN Idle ELSE reqs[c]]

\* res.json({ok: true, ...}) after n more store calls.
Respond(s, code, rows, n) ==
  reqs' = [reqs EXCEPT ![s] = [@ EXCEPT !.pc = "done", !.status = code,
                                        !.data = rows, !.ops = @ + n]]

\* res.status(code).json({error: msg}) after n more store calls.
Fail(s, code, msg, n) ==
  reqs' = [reqs EXCEPT ![s] = [@ EXCEPT !.pc = "done", !.status = code,
                                        !.data = {}, !.error = msg, !.ops = @ + n]]

Unavailable == "store unavailable"    \* e.message of a failed store call

NotSingle == "PGRST116"               \* .single() on zero or several rows

-----------------------------------------------------------------------------
(* The gateway *)

\* The state after both processes start: an empty store, no request in flight,
\* the notifier not yet run.
Setup(servers, skips, offsets) ==
  /\ server \in servers
  /\ skipAuth \in skips
  /\ users = {}
  /\ vehicles = {}
  /\ documents = {}
  /\ storage = {}
  /\ devices = {}
  /\ reminders = {}
  /\ nextReminderId = 1
  /\ reqs = [s \in Slots |-> Idle]
  /\ today = 0
  /\ tz \in offsets
  /\ job = NotStarted

Init == Setup(Servers, BOOLEAN, Offsets)

\* app.get('/health'): no middleware, no store.
Health(s) ==
  /\ ~Busy(s)
  /\ Accept(s, [Idle EXCEPT !.pc = "done", !.route = "health", !.status = 200])
  /\ UNCHANGED <<store, config, job>>

\* verifyToken without the catch around verifyIdToken: a rejected token
\* goes on to the handler.
VerifyTokenNoCatch(s, r) ==
  /\ ~Busy(s)
  /\ r.route \in RoutesOf(server)
  /\ Capacity(r)
  /\ LET inc == [Idle EXCEPT !.route = r.route, !.hdr = r.hdr, !.param = r.param,
                            !.body = r.body]
     IN  IF skipAuth
         THEN Accept(s, [inc EXCEPT !.pc = "handler", !.uid = DEV_UID,
                           !.claims = [email |-> DEV_EMAIL, name |-> Absent]])
         ELSE IF r.hdr \in {"absent", "malformed"}
         THEN Accept(s, [inc EXCEPT !.pc = "done", !.status = 401, !.error = "No token"])
         ELSE Accept(s, [inc EXCEPT !.pc = "handler", !.uid = r.uid, !.claims = r.claims])
  /\ UNCHANGED <<store, config, job>>

\* The middleware verifyToken on an incoming request r of a protected route.
VerifyToken(s, r) ==
  /\ ~Busy(s)
  /\ r.route \in RoutesOf(server)
  /\ Capacity(r)
  /\ LET inc == [Idle EXCEPT !.route = r.route, !.hdr = r.hdr, !.param = r.param,
                            !.body = r.body]
     IN  IF skipAuth
         THEN Accept(s, [inc EXCEPT !.pc = "handler", !.uid = DEV_UID,
                           !.claims = [email |-> DEV_EMAIL, name |-> Absent]])
         ELSE IF r.hdr \in {"absent", "malformed"}
         THEN Accept(s, [inc EXCEPT !.pc = "done", !.status = 401, !.error = "No token"])
         ELSE IF r.hdr = "rejected"
         THEN Accept(s, [inc EXCEPT !.pc = "done", !.status = 401,
                                    !.error = "Token invalido"])
         ELSE Accept(s, [inc EXCEPT !.pc = "handler", !.uid = r.uid, !.claims = r.claims])
  /\ UNCHANGED <<store, config, job>>

UserOf(uid) == {u \in users : u.firebase_uid = uid}

\* An insert in place of the upsert: no onConflict.
InsertUser(uid, email, displayName) ==
  users \cup {[id |-> Cardinality(users) + 1, firebase_uid |-> uid,
               email |-> IF email = Absent THEN NULL ELSE email,
               display_name |-> displayName]}

\* upsert({firebase_uid, email, display_name}, {onConflict: 'firebase_uid'})
UpsertUser(uid, email, displayName) ==
  IF UserOf(uid) = {}
  THEN users \cup {[id |-> Cardinality(users) + 1, firebase_uid |-> uid,
                    email |-> IF email = Absent THEN NULL ELSE email,
                    display_name |-> displayName]}
  ELSE {IF u.firebase_uid = uid
        THEN [u EXCEPT !.email = IF email = Absent THEN @ ELSE email,
                       !.display_name = displayName]
        ELSE u : u \in users}

\* POST /api/registerUser
RegisterUser(s) ==
  /\ reqs[s].pc = "handler"
  /\ reqs[s].route = "registerUser"
  /\ LET uid == reqs[s].uid
         email == Or(reqs[s].claims.email, reqs[s].body.email)
         displayName == Or(Or(reqs[s].claims.name, reqs[s].body.displayName), NULL)
     IN  \E ok \in BOOLEAN :
           IF ok
           THEN LET after == UpsertUser(uid, email, displayName)
                IN  /\ users' = after
                    /\ Respond(s, 200,
                         {u.id : u \in {w \in after : w.firebase_uid = uid}}, 1)
           ELSE /\ users' = users
                /\ Fail(s, 500, Unavailable, 1)
  /\ UNCHANGED <<vehicles, documents, storage, devices, reminders, nextReminderId,
                 config, job>>

\* const {data: user, error: userError} = ...from('users').select('id')
\*   .eq('firebase_uid', firebaseUid).single(), the first await of every
\* handler of part_000 that scopes its rows to the caller. registerDevice
\* checks the token of the body before it.
ResolveUser(s) ==
  /\ server = "part_000"
  /\ reqs[s].pc = "handler"
  /\ reqs[s].route \in ResolvingRoutes
  /\ IF reqs[s].route = "registerDevice" /\ reqs[s].body.token = Absent
     THEN Fail(s, 400, "token required", 0)
     ELSE \E ok \in BOOLEAN :
            IF ok /\ UserOf(reqs[s].uid) # {}
            THEN reqs' = [reqs EXCEPT ![s] =
                   [@ EXCEPT !.pc = "resolved", !.ops = @ + 1,
                             !.userId = (CHOOSE u \in UserOf(reqs[s].uid) : TRUE).id]]
            ELSE Fail(s, 404, "Usuario no encontrado", 1)
  /\ UNCHANGED <<store, config, job>>

\* POST /api/vehicles (part_000): insert({user_id: user.id, ...})
InsertVehicle(s) ==
  /\ server = "part_000"
  /\ reqs[s].pc = "resolved"
  /\ reqs[s].route = "createVehicle"
  /\ \E ok \in BOOLEAN :
       IF ok
       THEN LET id == Cardinality(vehicles) + 1
            IN  /\ vehicles' = vehicles \cup
                     {[id |-> id, user_id |-> reqs[s].userId, firebase_uid |-> NULL]}
                /\ Respond(s, 200, {id}, 1)
       ELSE /\ vehicles' = vehicles
            /\ Fail(s, 500, Unavailable, 1)
  /\ UNCHANGED <<users, documents, storage, devices, reminders, nextReminderId,
                 config, job>>

\* POST /api/vehicles (index.js): insert({firebase_uid: uid, ...}), no lookup.
LegacyInsertVehicle(s) ==
  /\ server = "index"
  /\ reqs[s].pc = "handler"
  /\ reqs[s].route = "createVehicle"
  /\ \E ok \in BOOLEAN :
       IF ok
       THEN LET id == Cardinality(vehicles) + 1
            IN  /\ vehicles' = vehicles \cup
                     {[id |-> id, user_id |-> 0, firebase_uid |-> reqs[s].uid]}
                /\ Respond(s, 200, {id}, 1)
       ELSE /\ vehicles' = vehicles
            /\ Fail(s, 500, Unavailable, 1)
  /\ UNCHANGED <<users, documents, storage, devices, reminders, nextReminderId,
                 config, job>>

\* GET /api/vehicles: select('*').eq('user_id', user.id)
SelectVehicles(s) ==
  /\ server = "part_000"
  /\ reqs[s].pc = "resolved"
  /\ reqs[s].route = "getVehicles"
  /\ \E ok \in BOOLEAN :
       IF ok
       THEN Respond(s, 200, {v.id : v \in {w \in vehicles : w.user_id = reqs[s].userId}}, 1)
       ELSE Fail(s, 500, Unavailable, 1)
  /\ UNCHANGED <<store, config, job>>

\* GET /api/vehicles/:vehicleId/documents: select('*').eq('vehicle_id', vehicleId)
SelectDocuments(s) ==
  /\ reqs[s].pc = "handler"
  /\ reqs[s].route = "getDocuments"
  /\ \E ok \in BOOLEAN :
       IF ok
       THEN Respond(s, 200,
                    {d.id : d \in {e \in documents : e.vehicle_id = reqs[s].param}}, 1)
       ELSE Fail(s, 500, Unavailable, 1)
  /\ UNCHANGED <<store, config, job>>

\* `${uid}/${vehicleId}/${Date.now()}_${req.file.originalname}`
StoragePath(uid, vehicleId) ==
  [uid |-> uid, vehicleId |-> vehicleId, stamp |-> Cardinality(storage) + 1]

\* The upload handler without `if (!req.file) return res.status(400)...`.
UploadDocumentNoFileCheck(s) ==
  /\ reqs[s].pc = "handler"
  /\ reqs[s].route = "uploadDocument"
  /\ \E ok \in BOOLEAN :
       IF ok
       THEN LET path == StoragePath(reqs[s].uid, reqs[s].param)
            IN  /\ storage' = storage \cup {path}
                /\ reqs' = [reqs EXCEPT ![s] =
                     [@ EXCEPT !.pc = "uploaded", !.ops = @ + 1, !.data = {path}]]
       ELSE /\ storage' = storage
            /\ Fail(s, 500, Unavailable, 1)
  /\ UNCHANGED <<users, vehicles, documents, devices, reminders, nextReminderId,
                 config, job>>

\* POST /api/vehicles/:vehicleId/documents up to its first await: the file
\* check, then supabase.storage.from('vehicle-docs').upload(path, ...).
UploadDocument(s) ==
  /\ reqs[s].pc = "handler"
  /\ reqs[s].route = "uploadDocument"
  /\ IF ~reqs[s].body.file
     THEN /\ storage' = storage
          /\ Fail(s, 400, "file required", 0)
     ELSE \E ok \in BOOLEAN :
            IF ok
            THEN LET path == StoragePath(reqs[s].uid, reqs[s].param)
                 IN  /\ storage' = storage \cup {path}
                     /\ reqs' = [reqs EXCEPT ![s] =
                          [@ EXCEPT !.pc = "uploaded", !.ops = @ + 1, !.data = {path}]]
            ELSE /\ storage' = storage
                 /\ Fail(s, 500, Unavailable, 1)
  /\ UNCHANGED <<users, vehicles, documents, devices, reminders, nextReminderId,
                 config, job>>

\* The metadata insert with a compensating delete: a failed insert removes
\* the object the request stored.
InsertDocumentOrRemove(s) ==
  /\ reqs[s].pc = "uploaded"
  /\ reqs[s].route = "uploadDocument"
  /\ \E ok \in BOOLEAN :
       IF ok /\ \E v \in vehicles : v.id = reqs[s].param
       THEN LET id == Cardinality(documents) + 1
            IN  /\ documents' = documents \cup
                     {[id |-> id, vehicle_id |-> reqs[s].param,
                       expiry_date |-> reqs[s].body.expiryDate,
                       storage_path |-> CHOOSE p \in reqs[s].data : TRUE]}
                /\ storage' = storage
                /\ Respond(s, 200, {id}, 1)
       ELSE /\ documents' = documents
            /\ storage' = storage \ reqs[s].data
            /\ Fail(s, 500, Unavailable, 2)
  /\ UNCHANGED <<users, vehicles, devices, reminders, nextReminderId, config, job>>

\* ... its second await: from('documents').insert({vehicle_id, expiry_date,
\* storage_path, ...}). documents.vehicle_id references vehicles, so the
\* insert of an unknown vehicle id is one of the inserts that fail.
InsertDocument(s) ==
  /\ reqs[s].pc = "uploaded"
  /\ reqs[s].route = "uploadDocument"
  /\ \E ok \in BOOLEAN :
       IF ok /\ \E v \in vehicles : v.id = reqs[s].param
       THEN LET id == Cardinality(documents) + 1
            IN  /\ documents' = documents \cup
                     {[id |-> id, vehicle_id |-> reqs[s].param,
                       expiry_date |-> reqs[s].body.expiryDate,
                       storage_path |-> CHOOSE p \in reqs[s].data : TRUE]}
                /\ Respond(s, 200, {id}, 1)
       ELSE /\ documents' = documents
            /\ Fail(s, 500, Unavailable, 1)
  /\ UNCHANGED <<users, vehicles, storage, devices, reminders, nextReminderId,
                 config, job>>

\* An insert in place of the device upsert: a token already registered gets
\* one more row.
InsertDevice(token, column, value) ==
  devices \cup
    {[token |-> token,
      user_id |-> IF column = "user_id" THEN value ELSE 0,
      firebase_uid |-> IF column = "firebase_uid" THEN value ELSE NULL]}

\* upsert({user_id, token, platform}, {onConflict: 'token'}): a conflicting
\* row keeps the columns the payload does not name.
UpsertDevice(token, column, value) ==
  IF \E d \in devices : d.token = token
  THEN {IF d.token = token
        THEN (IF column = "user_id" THEN [d EXCEPT !.user_id = value]
                                    ELSE [d EXCEPT !.firebase_uid = value])
        ELSE d : d \in devices}
  ELSE devices \cup
         {[token |-> token,
           user_id |-> IF column = "user_id" THEN value ELSE 0,
           firebase_uid |-> IF column = "firebase_uid" THEN value ELSE NULL]}

\* POST /api/registerDevice (part_000), after the user lookup.
RegisterDevice(s) ==
  /\ server = "part_000"
  /\ reqs[s].pc = "resolved"
  /\ reqs[s].route = "registerDevice"
  /\ \E ok \in BOOLEAN :
       IF ok
       THEN /\ devices' = UpsertDevice(reqs[s].body.token, "user_id", reqs[s].userId)
            /\ Respond(s, 200, {reqs[s].body.token}, 1)
       ELSE /\ devices' = devices
            /\ Fail(s, 500, Unavailable, 1)
  /\ UNCHANGED <<users, vehicles, documents, storage, reminders, nextReminderId,
                 config, job>>

\* POST /api/registerDevice (index.js): upsert({firebase_uid: uid, token, ...}).
LegacyRegisterDevice(s) ==
  /\ server = "index"
  /\ reqs[s].pc = "handler"
  /\ reqs[s].route = "registerDevice"
  /\ IF reqs[s].body.token = Absent
     THEN /\ devices' = devices
          /\ Fail(s, 400, "token required", 0)
     ELSE \E ok \in BOOLEAN :
            IF ok
            THEN /\ devices' = UpsertDevice(reqs[s].body.token, "firebase_uid", reqs[s].uid)
                 /\ Respond(s, 200, {reqs[s].body.token}, 1)
            ELSE /\ devices' = devices
                 /\ Fail(s, 500, Unavailable, 1)
  /\ UNCHANGED <<users, vehicles, documents, storage, reminders, nextReminderId,
                 config, job>>

\* GET /api/reminders: select('*').eq('user_id', user.id)[.eq('vehicle_id', ...)]
SelectReminders(s) ==
  /\ server = "part_000"
  /\ reqs[s].pc = "resolved"
  /\ reqs[s].route = "getReminders"
  /\ \E ok \in BOOLEAN :
       IF ok
       THEN Respond(s, 200, {r.id : r \in {q \in reminders : q.user_id = reqs[s].userId}}, 1)
       ELSE Fail(s, 500, Unavailable, 1)
  /\ UNCHANGED <<store, config, job>>

\* POST /api/reminders: insert({user_id: user.id, title, ...})
InsertReminder(s) ==
  /\ server = "part_000"
  /\ reqs[s].pc = "resolved"
  /\ reqs[s].route = "createReminder"
  /\ \E ok \in BOOLEAN :
       IF ok
       THEN /\ reminders' = reminders \cup
                 {[id |-> nextReminderId, user_id |-> reqs[s].userId,
                   title |-> reqs[s].body.title]}
            /\ nextReminderId' = nextReminderId + 1
            /\ Respond(s, 200, {nextReminderId}, 1)
       ELSE /\ UNCHANGED <<reminders, nextReminderId>>
            /\ Fail(s, 500, Unavailable, 1)
  /\ UNCHANGED <<users, vehicles, documents, storage, devices, config, job>>

\* The filter without .eq('user_id', user.id).
OwnRemindersAnyOwner(id, userId) == {r \in reminders : r.id = id}

\* The rows .eq('id', id).eq('user_id', user.id) selects.
OwnReminders(id, userId) == {r \in reminders : r.id = id /\ r.user_id = userId}

\* .select().single(): an error unless exactly one row comes back.
Single(rows) == Cardinality(rows) = 1

\* PUT /api/reminders/:id: update({title, ...}).eq('id', id)
\*   .eq('user_id', user.id).select().single()
UpdateReminder(s) ==
  /\ server = "part_000"
  /\ reqs[s].pc = "resolved"
  /\ reqs[s].route = "updateReminder"
  /\ \E ok \in BOOLEAN :
       IF ok
       THEN LET hit == OwnReminders(reqs[s].param, reqs[s].userId)
            IN  /\ reminders' = {IF r \in hit THEN [r EXCEPT !.title = reqs[s].body.title]
                                              ELSE r : r \in reminders}
                /\ IF Single(hit)
                   THEN Respond(s, 200, {r.id : r \in hit}, 1)
                   ELSE Fail(s, 500, NotSingle, 1)
       ELSE /\ reminders' = reminders
            /\ Fail(s, 500, Unavailable, 1)
  /\ UNCHANGED <<users, vehicles, documents, storage, devices, nextReminderId,
                 config, job>>

\* DELETE /api/reminders/:id: delete().eq('id', id).eq('user_id', user.id)
DeleteReminder(s) ==
  /\ server = "part_000"
  /\ reqs[s].pc = "resolved"
  /\ reqs[s].route = "deleteReminder"
  /\ \E ok \in BOOLEAN :
       IF ok
       THEN /\ reminders' = reminders \ OwnReminders(reqs[s].param, reqs[s].userId)
            /\ Respond(s, 200, {}, 1)
       ELSE /\ reminders' = reminders
            /\ Fail(s, 500, Unavailable, 1)
  /\ UNCHANGED <<users, vehicles, documents, storage, devices, nextReminderId,
                 config, job>>

\* Every handler step of the gateway, on the connection s.
Handle(s) ==
  \/ RegisterUser(s)
  \/ ResolveUser(s)
  \/ InsertVehicle(s)
  \/ LegacyInsertVehicle(s)
  \/ SelectVehicles(s)
  \/ SelectDocuments(s)
  \/ UploadDocument(s)
  \/ InsertDocument(s)
  \/ RegisterDevice(s)
  \/ LegacyRegisterDevice(s)
  \/ SelectReminders(s)
  \/ InsertReminder(s)
  \/ UpdateReminder(s)
  \/ DeleteReminder(s)


-----------------------------------------------------------------------------
(* The notifier job. Instants are hours since the UTC midnight of day 0;   *)
(* a date-only string is its day number.                                   *)

\* new Date(y, m, d): the local midnight of a calendar day, as an instant.
LocalMidnight(day) == day * HoursPerDay - tz

\* date.toISOString().split('T')[0]: the UTC calendar day of an instant.
IsoDate(instant) == instant \div HoursPerDay

\* new Date('YYYY-MM-DD').getTime(): a date-only string is UTC midnight.
ParseDate(day) == day * HoursPerDay

Ceil(a, b) == -((-a) \div b)

startOfToday == LocalMidnight(today)

maxDate == LocalMidnight(today + WindowDays)

\* Math.ceil((expiry.getTime() - startOfToday.getTime()) / (1000*60*60*24))
DiffDays(expiry_date) == Ceil(ParseDate(expiry_date) - startOfToday, HoursPerDay)

\* .gte('expiry_date', ...).lte('expiry_date', ...)
InWindow(d) ==
  /\ d.expiry_date >= IsoDate(startOfToday)
  /\ d.expiry_date <= IsoDate(maxDate)

RECURSIVE ById(_)
\* The rows of a result set, in primary key order.
ById(rows) ==
  IF rows = {} THEN <<>>
  ELSE LET first == CHOOSE r \in rows : \A q \in rows : r.id <= q.id
       IN  <<first>> \o ById(rows \ {first})

Current == job.docs[job.i]

\* continue: on to the next document of the list.
Continue(why) ==
  job' = [job EXCEPT !.pc = "loop", !.i = @ + 1,
                     !.skipped = @ \cup {[doc |-> Current.id, why |-> why]}]

\* The initial query of main(); its error is thrown to the outer catch.
QueryDocuments ==
  /\ job.pc = "idle"
  /\ \E ok \in BOOLEAN :
       IF ok
       THEN job' = [job EXCEPT !.pc = "loop", !.i = 1,
                               !.docs = ById({d \in documents : InWindow(d)})]
       ELSE job' = [job EXCEPT !.pc = "failed"]
  /\ UNCHANGED <<store, config, reqs>>

\* The head of the for loop: the end of the list, or the exact-day filter.
NextDocument ==
  /\ job.pc = "loop"
  /\ IF job.i > Len(job.docs)
     THEN job' = [job EXCEPT !.pc = "done"]
     ELSE LET diffDays == DiffDays(Current.expiry_date)
          IN  IF diffDays \notin Targets
              THEN Continue("day")
              ELSE job' = [job EXCEPT !.pc = "vehicle", !.diffDays = diffDays]
  /\ UNCHANGED <<store, config, reqs>>

\* from('vehicles').select('firebase_uid').eq('id', d.vehicle_id).single()
VehicleLookup ==
  /\ job.pc = "vehicle"
  /\ \E ok \in BOOLEAN :
       LET rows == {v \in vehicles : v.id = Current.vehicle_id}
       IN  IF ok /\ Single(rows)
           THEN job' = [job EXCEPT !.pc = "devices",
                          !.firebaseUid = (CHOOSE v \in rows : TRUE).firebase_uid]
           ELSE Continue(IF ok THEN "no vehicle" ELSE "vehicle error")
  /\ UNCHANGED <<store, config, reqs>>

\* from('devices').select('token').eq('firebase_uid', firebaseUid): no row
\* equals a NULL.
DevicesLookup ==
  /\ job.pc = "devices"
  /\ \E ok \in BOOLEAN :
       LET tokens == {d.token : d \in {e \in devices :
                         job.firebaseUid # NULL /\ e.firebase_uid = job.firebaseUid}}
       IN  IF ~ok THEN Continue("devices error")
           ELSE IF tokens = {} THEN Continue("no tokens")
           ELSE job' = [job EXCEPT !.pc = "send", !.tokens = tokens]
  /\ UNCHANGED <<store, config, reqs>>

\* await admin.messaging().sendMulticast(message): a rejection is thrown to
\* the outer catch, which ends the process with exit code 1.
SendMulticast ==
  /\ job.pc = "send"
  /\ \E ok \in BOOLEAN :
       IF ok
       THEN job' = [job EXCEPT !.pc = "loop", !.i = @ + 1,
                      !.sent = Append(@, [doc |-> Current.id, tokens |-> job.tokens,
                                          diffDays |-> job.diffDays])]
       ELSE job' = [job EXCEPT !.pc = "failed"]
  /\ UNCHANGED <<store, config, reqs>>

Notify ==
  \/ QueryDocuments
  \/ NextDocument
  \/ VehicleLookup
  \/ DevicesLookup
  \/ SendMulticast


-----------------------------------------------------------------------------
(* Clients: the requests each specification sends. *)

Request(route, hdr, uid, claims, param, body) ==
  [route |-> route, hdr |-> hdr, uid |-> uid, claims |-> claims, param |-> param,
   body |-> body]

\* A request with a verifiable token of the identity uid.
Signed(route, uid, param, body) == Request(route, "valid", uid, NoClaims, param, body)

Registration(uid) ==
  Signed("registerUser", uid, 0, [email |-> "a@x", displayName |-> Absent])

\* Both identities register; uidA creates reminders; both update and delete
\* by id.
ReminderRequests ==
  {Registration(uid) : uid \in Uids}
  \cup {Signed("createReminder", "uidA", 0, [title |-> "old"])}
  \cup {Signed("updateReminder", uid, id, [title |-> "new"]) :
          uid \in Uids, id \in 1..MaxReminders}
  \cup {Signed("deleteReminder", uid, id, NoBody) : uid \in Uids, id \in 1..MaxReminders}

\* A new request takes the first free connection.
FirstFree(s) == s = "c1" \/ Busy("c1")

ReminderClient ==
  \E s \in Slots, r \in ReminderRequests : FirstFree(s) /\ VerifyToken(s, r)

ReminderHandlers ==
  \E s \in Slots :
    \/ RegisterUser(s)
    \/ ResolveUser(s)
    \/ InsertReminder(s)
    \/ UpdateReminder(s)
    \/ DeleteReminder(s)

NextReminders == ReminderClient \/ ReminderHandlers

SpecReminders ==
  Setup({"part_000"}, {FALSE}, {0}) /\ [][NextReminders]_vars

\* One request of every protected route, on behalf of uid.
EveryRoute(hdr, uid) ==
  {Request("registerUser", hdr, uid, NoClaims, 0,
           [email |-> "a@x", displayName |-> Absent]),
   Request("createVehicle", hdr, uid, NoClaims, 0, NoBody),
   Request("getVehicles", hdr, uid, NoClaims, 0, NoBody),
   Request("getDocuments", hdr, uid, NoClaims, 1, NoBody),
   Request("uploadDocument", hdr, uid, NoClaims, 1, [file |-> TRUE, expiryDate |-> 15]),
   Request("registerDevice", hdr, uid, NoClaims, 0, [token |-> "tokP"]),
   Request("getReminders", hdr, uid, NoClaims, 0, NoBody),
   Request("createReminder", hdr, uid, NoClaims, 0, [title |-> "old"]),
   Request("updateReminder", hdr, uid, NoClaims, 1, [title |-> "new"]),
   Request("deleteReminder", hdr, uid, NoClaims, 1, NoBody)}

\* Every protected route with every kind of Authorization header; only a
\* verifiable token carries an identity.
AuthRequests ==
  EveryRoute("valid", "uidB")
  \cup UNION {EveryRoute(hdr, NULL) : hdr \in Headers \ {"valid"}}

\* One connection at a time: what the middleware does to a request does not
\* depend on the other requests.
AuthClient == \E r \in AuthRequests : VerifyToken("c1", r)

NextAuth ==
  \/ Health("c1")
  \/ AuthClient
  \/ Handle("c1")

SpecAuth == Setup(Servers, BOOLEAN, {0}) /\ [][NextAuth]_vars

\* Vehicles and their documents: uidA registers and creates vehicles, uidB
\* (who never registers) uploads to vehicle 1 with or without a file, and
\* both list its documents.
DocumentRequests ==
  {Registration("uidA"), Signed("createVehicle", "uidA", 0, NoBody)}
  \cup {Signed("getDocuments", uid, 1, NoBody) : uid \in Uids}
  \cup {Signed("uploadDocument", "uidB", 1, [file |-> f, expiryDate |-> 15]) :
          f \in BOOLEAN}

DocumentClient ==
  \E s \in Slots, r \in DocumentRequests : FirstFree(s) /\ VerifyToken(s, r)

DocumentHandlers ==
  \E s \in Slots :
    \/ RegisterUser(s)
    \/ ResolveUser(s)
    \/ InsertVehicle(s)
    \/ LegacyInsertVehicle(s)
    \/ SelectDocuments(s)
    \/ UploadDocument(s)
    \/ InsertDocument(s)

NextDocuments == DocumentClient \/ DocumentHandlers

SpecDocuments == Setup(Servers, BOOLEAN, {0}) /\ [][NextDocuments]_vars

\* Registrations whose body carries an email and a display name or not; the
\* token carries none (under SKIP_AUTH req.user.email is the fixed one).
UserRequests ==
  {Signed("registerUser", uid, 0, [email |-> e, displayName |-> n]) :
     uid \in Uids, e \in {Absent, "a@x", "b@x"}, n \in {Absent, "Ana"}}

UserClient == \E s \in Slots, r \in UserRequests : FirstFree(s) /\ VerifyToken(s, r)

UserHandlers == \E s \in Slots : RegisterUser(s)

NextUsers == UserClient \/ UserHandlers

SpecUsers == Setup(Servers, BOOLEAN, {0}) /\ [][NextUsers]_vars

\* What the notifier reads: vehicles of uidA, devices of both identities and
\* documents that expire in 15 or in 16 days.
NotifierRequests ==
  {Registration(uid) : uid \in Uids}
  \cup {Signed("createVehicle", "uidA", 0, NoBody)}
  \cup {Signed("registerDevice", uid, 0, [token |-> tok]) : uid \in Uids, tok \in Tokens}
  \cup {Signed("uploadDocument", "uidA", 1, [file |-> TRUE, expiryDate |-> day]) :
          day \in {15, 16}}

\* The scheduler starts the job at an hour at which the gateway is quiet: no
\* request is in flight when the run begins and none arrives during it.
NotifierClient ==
  /\ job.pc = "idle"
  /\ \E r \in NotifierRequests : VerifyToken("c1", r)

NotifierHandlers ==
  \/ RegisterUser("c1")
  \/ ResolveUser("c1")
  \/ InsertVehicle("c1")
  \/ LegacyInsertVehicle("c1")
  \/ RegisterDevice("c1")
  \/ LegacyRegisterDevice("c1")
  \/ UploadDocument("c1")
  \/ InsertDocument("c1")

QuietStart == (\A s \in Slots : ~Busy(s)) /\ QueryDocuments

NextNotifier ==
  \/ NotifierClient
  \/ NotifierHandlers
  \/ QuietStart
  \/ NextDocument
  \/ VehicleLookup
  \/ DevicesLookup
  \/ SendMulticast

SpecNotifier == Setup(Servers, {FALSE}, {0}) /\ [][NextNotifier]_vars

\* The notifier on hosts west of, at and east of UTC: uidA registers, creates
\* a vehicle, registers one device and uploads documents that expire
\* yesterday, in 15 days and in 30 days.
ZoneRequests ==
  {Registration("uidA"),
   Signed("createVehicle", "uidA", 0, NoBody),
   Signed("registerDevice", "uidA", 0, [token |-> "tokP"])}
  \cup {Signed("uploadDocument", "uidA", 1, [file |-> TRUE, expiryDate |-> day]) :
          day \in {-1, 15, WindowDays}}

ZoneClient ==
  /\ job.pc = "idle"
  /\ \E r \in ZoneRequests : VerifyToken("c1", r)

NextZones ==
  \/ ZoneClient
  \/ NotifierHandlers
  \/ QuietStart
  \/ NextDocument
  \/ VehicleLookup
  \/ DevicesLookup
  \/ SendMulticast

SpecZones == Setup(Servers, {FALSE}, Offsets) /\ [][NextZones]_vars

\* Device registrations: both identities register as users and register
\* either push token, or send a body without a token.
DeviceRequests ==
  {Registration(uid) : uid \in Uids}
  \cup {Signed("registerDevice", uid, 0, [token |-> tok]) :
          uid \in Uids, tok \in Tokens \cup {Absent}}

DeviceClient == \E s \in Slots, r \in DeviceRequests : FirstFree(s) /\ VerifyToken(s, r)

DeviceHandlers ==
  \E s \in Slots :
    \/ RegisterUser(s)
    \/ ResolveUser(s)
    \/ RegisterDevice(s)

NextDevices == DeviceClient \/ DeviceHandlers

SpecDevices == Setup({"part_000"}, BOOLEAN, {0}) /\ [][NextDevices]_vars

AllRequests ==
  ReminderRequests \cup AuthRequests \cup DocumentRequests \cup UserRequests
    \cup NotifierRequests \cup ZoneRequests \cup DeviceRequests

Client == \E s \in Slots, r \in AllRequests : FirstFree(s) /\ VerifyToken(s, r)

Next ==
  \/ \E s \in Slots : Health(s)
  \/ Client
  \/ \E s \in Slots : Handle(s)
  \/ Notify

Spec == Init /\ [][Next]_vars

-----------------------------------------------------------------------------
(* Properties *)

\* The users.id of the identity behind the request of connection s.
CallerId(s) == {u.id : u \in UserOf(reqs[s].uid)}

\* The connection s answers a PUT or DELETE /api/reminders/:id in this step.
MutatesReminder(s) ==
  /\ reqs[s].route \in {"updateReminder", "deleteReminder"}
  /\ reqs[s].pc = "resolved"
  /\ reqs'[s].pc = "done"

\* C2: a reminder row is changed or removed only by a PUT or DELETE request
\* for that id whose caller's internal user id is the row's user_id, and a
\* request that names a reminder of another user leaves table reminders as
\* it is.
C2_OwnerOnly ==
  [][/\ \A r \in reminders :
          r \notin reminders' =>
            \E s \in Slots : /\ MutatesReminder(s)
                             /\ reqs[s].param = r.id
                             /\ CallerId(s) = {r.user_id}
     /\ \A s \in Slots :
          (/\ MutatesReminder(s)
           /\ \A r \in reminders : r.id = reqs[s].param => {r.user_id} # CallerId(s))
          => reminders' = reminders]_vars

\* C2 witness: a DELETE that reached the store was answered while the
\* reminder it names, owned by another user, is still in the table.
C2_Witness ==
  \E s \in Slots, r \in reminders :
    /\ reqs[s].pc = "done"
    /\ reqs[s].route = "deleteReminder"
    /\ reqs[s].status = 200
    /\ reqs[s].param = r.id
    /\ CallerId(s) # {}
    /\ CallerId(s) # {r.user_id}

\* The request of connection s came without a token the identity provider
\* accepts, to a server that does not bypass the check.
Unauthenticated(s) ==
  /\ ~skipAuth
  /\ reqs[s].route \notin {NULL, "health"}
  /\ reqs[s].hdr # "valid"

\* C1: with SKIP_AUTH off, a request to a protected route whose Authorization
\* header is absent, malformed or rejected is answered 401, never reaches its
\* handler and causes no store call: the step that answers it leaves the
\* store as it is.
C1_Unauthorized ==
  /\ [](\A s \in Slots :
          Unauthenticated(s) =>
            /\ reqs[s].pc = "done"
            /\ reqs[s].status = 401
            /\ reqs[s].uid = NULL
            /\ reqs[s].ops = 0)
  /\ [][\A s \in Slots :
          (reqs'[s] # reqs[s] /\ ~skipAuth /\ reqs'[s].hdr \in Headers \ {"valid"})
          => store' = store]_vars

\* C1 witness: a rejected token on DELETE /api/reminders/:id was answered
\* while a reminder of that id exists.
C1_Witness ==
  \E s \in Slots :
    /\ Unauthenticated(s)
    /\ reqs[s].hdr = "rejected"
    /\ reqs[s].route = "deleteReminder"
    /\ reqs[s].status = 401
    /\ \E r \in reminders : r.id = reqs[s].param

\* The request of connection s named a reminder that another user owns, and
\* the store answered its update or delete call.
ForeignReminderDone(s) ==
  /\ reqs[s].pc = "done"
  /\ reqs[s].route \in {"updateReminder", "deleteReminder"}
  /\ reqs[s].ops = 2
  /\ reqs[s].error # Unavailable
  /\ \E r \in reminders : r.id = reqs[s].param /\ r.user_id # reqs[s].userId

\* C3: a PUT or DELETE /api/reminders/:id on a reminder of another user is
\* answered with a zero-row result, never with a 4xx or 5xx status.
C3_ForeignIsNoError ==
  \A s \in Slots : ForeignReminderDone(s) => reqs[s].status < 400

\* The vehicle ids the caller of connection s owns, by users.id (part_000)
\* or by the external identity itself (index.js).
CallerVehicles(s) ==
  {v.id : v \in {w \in vehicles : \/ {w.user_id} = CallerId(s)
                                  \/ w.firebase_uid = reqs[s].uid}}

\* C4 (its clause on documents): GET and POST /api/vehicles/:vehicleId/documents
\* return and create documents only of a vehicle the caller owns.
C4_OwnerScoped ==
  \A s \in Slots :
    (/\ reqs[s].pc = "done"
     /\ reqs[s].route \in {"getDocuments", "uploadDocument"}
     /\ reqs[s].status = 200)
    => \A d \in documents : d.id \in reqs[s].data => d.vehicle_id \in CallerVehicles(s)

\* C5: until its identity has a users row, every request to a route other
\* than POST /api/registerUser that the store answers is answered 404 after
\* the user lookup alone.
C5_RegisterFirst ==
  \A s \in Slots :
    (/\ reqs[s].pc = "done"
     /\ reqs[s].route \in RoutesOf(server) \ {"registerUser"}
     /\ reqs[s].uid # NULL
     /\ UserOf(reqs[s].uid) = {}
     /\ reqs[s].error # Unavailable)
    => /\ reqs[s].status \in {400, 404}
       /\ reqs[s].ops <= 1

\* The request of connection s is an upload that passed the middleware and
\* carries no file.
UploadWithoutFile(s) ==
  /\ reqs[s].route = "uploadDocument"
  /\ reqs[s].uid # NULL
  /\ ~reqs[s].body.file

\* C10: an upload without a file is answered 400 before any store call of
\* the handler: nothing is written to the bucket or to table documents for
\* it, and the step that answers it leaves the store as it is.
C10_FileRequired ==
  /\ [](\A s \in Slots :
          UploadWithoutFile(s) =>
            /\ reqs[s].pc \in {"handler", "done"}
            /\ reqs[s].ops = 0
            /\ reqs[s].pc = "done" => reqs[s].status = 400)
  /\ [][\A s \in Slots :
          (UploadWithoutFile(s) /\ reqs[s].pc = "handler" /\ reqs'[s].pc # "handler")
          => /\ store' = store
             /\ reqs'[s].pc = "done"]_vars

\* C10 witness: an upload without a file was answered 400 by a server whose
\* bucket and documents table already hold an earlier upload.
C10_Witness ==
  \E s \in Slots :
    /\ UploadWithoutFile(s)
    /\ reqs[s].pc = "done"
    /\ reqs[s].status = 400
    /\ documents # {}

\* The connection s answers a POST /api/registerUser with success in this step.
Registers(s) ==
  /\ reqs[s].route = "registerUser"
  /\ reqs[s].pc = "handler"
  /\ reqs'[s].pc = "done"
  /\ reqs'[s].status = 200

\* The email and the display name the handler computes for connection s.
EmailOf(s) == Or(reqs[s].claims.email, reqs[s].body.email)

DisplayNameOf(s) == Or(Or(reqs[s].claims.name, reqs[s].body.displayName), NULL)

\* C6 as stated: a successful registration leaves the identity's row with
\* the email and the display name of that call.
C6_Overwrites ==
  [][\A s \in Slots :
       Registers(s) =>
         \A u \in UserOf(reqs[s].uid)' :
           /\ u.email = (IF EmailOf(s) = Absent THEN NULL ELSE EmailOf(s))
           /\ u.display_name = DisplayNameOf(s)]_vars

\* C6 amended: table users holds one row per external identity and changes
\* only by a successful registration; that registration creates the row or
\* keeps its id, sets its display name to the call's (null when it has none)
\* and its email to the call's when the call carries one, else keeps the
\* stored email; every other row is untouched, and a call that repeats the
\* stored values leaves the table as it is.
C6_Upsert ==
  /\ [](\A u, w \in users : (u.firebase_uid = w.firebase_uid \/ u.id = w.id) => u = w)
  /\ [][users' # users => \E s \in Slots : Registers(s)]_vars
  /\ [][\A s \in Slots :
          Registers(s) =>
            LET before == UserOf(reqs[s].uid)
                after == UserOf(reqs[s].uid)'
            IN  /\ Cardinality(after) = 1
                /\ users' \ after = users \ before
                /\ \A a \in after :
                     /\ a.display_name = DisplayNameOf(s)
                     /\ EmailOf(s) # Absent => a.email = EmailOf(s)
                     /\ \A b \in before :
                          /\ a.id = b.id
                          /\ EmailOf(s) = Absent => a.email = b.email
                          /\ (b.display_name = DisplayNameOf(s)
                              /\ EmailOf(s) \in {Absent, b.email}) => users' = users
                     /\ (before = {} /\ EmailOf(s) = Absent) => a.email = NULL]_vars

\* C6 witness: a second registration without an email was answered with
\* success and the identity's row still holds the email of the first, beside
\* the row of another identity.
C6_Witness ==
  \E s \in Slots :
    /\ reqs[s].pc = "done"
    /\ reqs[s].route = "registerUser"
    /\ reqs[s].status = 200
    /\ reqs[s].claims.email = Absent
    /\ reqs[s].body.email = Absent
    /\ \E u \in UserOf(reqs[s].uid) : u.email = "b@x"
    /\ Cardinality(users) = 2

\* The push tokens of the user who owns the vehicle v, as the gateway that
\* wrote the rows keys them.
OwnerTokens(v) ==
  {d.token : d \in {e \in devices :
      \/ v.user_id # 0 /\ e.user_id = v.user_id
      \/ v.firebase_uid # NULL /\ e.firebase_uid = v.firebase_uid}}

\* The notifications of the run for the document id.
SentFor(id) == {k \in DOMAIN job.sent : job.sent[k].doc = id}

\* The run skipped the document id because a store call failed.
LookupFailed(id) ==
  \E e \in job.skipped : e.doc = id /\ e.why \in {"vehicle error", "devices error"}

\* C7: a run that ends normally has sent, for every document that expires
\* exactly 30, 15 or 7 days after today, whose vehicle was created through the
\* gateway and whose owner registered a device through the gateway, exactly
\* one notification, addressed to all of the owner's tokens and to no other;
\* and none for a document of any other day.
C7_ExactDay ==
  job.pc = "done" =>
    \A d \in documents :
      /\ (d.expiry_date - today) \notin Targets => SentFor(d.id) = {}
      /\ \A v \in vehicles :
           (/\ v.id = d.vehicle_id
            /\ (d.expiry_date - today) \in Targets
            /\ OwnerTokens(v) # {}
            /\ ~LookupFailed(d.id))
           => /\ Cardinality(SentFor(d.id)) = 1
              /\ \A k \in SentFor(d.id) : job.sent[k].tokens = OwnerTokens(v)

\* The run has handled the k-th document of its list: it went past it, or
\* it ended on the dispatch for it.
Processed(k) == k < job.i \/ (k = job.i /\ job.pc = "failed")

\* The k-th document of the list was skipped for want of a vehicle, an owner
\* or a device token.
Skipped(k) == \E e \in job.skipped : e.doc = job.docs[k].id /\ e.why # "day"

\* C8: when the run has ended, no notification went out for a document it
\* skipped and every document listed after a skipped one has been processed.
C8_SkipGoesOn ==
  job.pc \in {"done", "failed"} =>
    \A k \in DOMAIN job.docs :
      Skipped(k) => /\ SentFor(job.docs[k].id) = {}
                    /\ \A j \in DOMAIN job.docs : j > k => Processed(j)

\* C9: the run exits non-zero only when the initial document query failed.
C9_OnlyQueryIsFatal ==
  job.pc = "failed" => job.i = 0

\* The connection s is about to make the storage upload of an upload request
\* that carries a file.
AtStorageUpload(s) ==
  /\ reqs[s].route = "uploadDocument"
  /\ reqs[s].pc = "handler"
  /\ reqs[s].body.file

\* The connection s is about to make the metadata insert.
AtMetadataInsert(s) ==
  /\ reqs[s].route = "uploadDocument"
  /\ reqs[s].pc = "uploaded"

\* The documents rows that reference the stored object p.
Referencing(p) == {d \in documents : d.storage_path = p}

\* C11: in the upload handler the storage write precedes the metadata insert.
\* A failed storage upload answers 500 and inserts no documents row; a failed
\* metadata insert answers 500, leaves the stored object in place and leaves
\* no documents row that references it; no step removes a stored object; a
\* documents row is inserted only by a request whose object is already
\* stored, so every row's object is in storage.
C11_StorageFirst ==
  [][/\ storage \subseteq storage'
     /\ \A d \in documents' : d.storage_path \in storage'
     /\ documents' # documents => \E s \in Slots : AtMetadataInsert(s) /\ reqs'[s].pc = "done"
     /\ \A s \in Slots :
          /\ (AtStorageUpload(s) /\ reqs'[s] # reqs[s]) =>
               /\ documents' = documents
               /\ \/ /\ reqs'[s].pc = "uploaded"
                     /\ storage' # storage
                     /\ reqs'[s].data \subseteq storage'
                  \/ /\ reqs'[s].pc = "done"
                     /\ reqs'[s].status = 500
                     /\ storage' = storage
          /\ (AtMetadataInsert(s) /\ reqs'[s] # reqs[s]) =>
               /\ storage' = storage
               /\ reqs[s].data \subseteq storage
               /\ reqs'[s].pc = "done"
               /\ \/ /\ reqs'[s].status = 200
                     /\ \E d \in documents' \ documents :
                          /\ documents' = documents \cup {d}
                          /\ reqs[s].data = {d.storage_path}
                  \/ /\ reqs'[s].status = 500
                     /\ documents' = documents
                     /\ \A p \in reqs[s].data : {d \in documents' : d.storage_path = p} = {}
    ]_vars

\* An upload whose storage write succeeded and whose metadata insert failed
\* has been answered 500: its object is stored and no row references it,
\* while another upload has gone through.
C11_Witness ==
  /\ \E s \in Slots :
       /\ reqs[s].route = "uploadDocument"
       /\ reqs[s].pc = "done"
       /\ reqs[s].status = 500
       /\ reqs[s].ops = 2
  /\ \E p \in storage : Referencing(p) = {}
  /\ documents # {}

\* The devices rows of the push token tok.
RowsOf(tok, rows) == {d \in rows : d.token = tok}

\* The connection s holds a POST /api/registerDevice that is not yet answered.
RegisteringDevice(s) == reqs[s].route = "registerDevice" /\ Busy(s)

DueWithinWindow ==
  {d \in documents : today <= d.expiry_date /\ d.expiry_date <= today + WindowDays}

\* The documents the run's query returned.
Listed == {job.docs[k] : k \in DOMAIN job.docs}

\* The run is past the exact-day filter for the current document.
Matched == job.pc \in {"vehicle", "devices", "send"}

\* C13: at every UTC offset of the host, the run's query returns exactly the
\* documents that expire in [today, today + 30] of the host's calendar, and
\* the diffDays of a document that passed the 30/15/7 filter is the number of
\* calendar days from the host's today to its expiry date; a document the
\* filter dropped is not 30, 15 or 7 calendar days from expiry.
C13_CalendarDays ==
  job.i > 0 =>
    /\ Listed = DueWithinWindow
    /\ Matched => job.diffDays = Current.expiry_date - today
    /\ \A k \in DOMAIN job.sent :
         \A d \in Listed :
           d.id = job.sent[k].doc => job.sent[k].diffDays = d.expiry_date - today
    /\ \A e \in job.skipped :
         \A d \in Listed :
           (d.id = e.doc /\ e.why = "day") => (d.expiry_date - today) \notin Targets

====
